---------------------------- MODULE Spec2Model ----------------------------
(***************************************************************************)
(* Scenario deduplication of prd-to-bdd-approaches.                        *)
(*                                                                         *)
(*   approach 3  remove_duplicates_cosine_90   (SpecCosine)                *)
(*   approach 4  clean_duplicates_with_llm     (SpecLLM)                   *)
(*   approach 2  analyze_bdd_steps_with_nli    (SpecNLI)                   *)
(*   has_contrast called on its own            (SpecContrast)              *)
(*   a run of approach 2 or of approach 3      (SpecEmbed)                 *)
(*                                                                         *)
(* Texts are sequences of one-character strings, so that Python's          *)
(* substring test and lower() are computed and not assumed.  Similarities  *)
(* are in hundredths (0.9 is 90).  Python indices are kept 0-based.        *)
(***************************************************************************)
EXTENDS Integers, Sequences, FiniteSets, TLC

VARIABLES
    pc,              \* position of the running function
    features,        \* the input list of scenario records (0-based function)
    ret,             \* the returned value
    i,               \* outer loop index (3), batch start (4), pair index (2)
    removed_count,   \* approach 3 and 4: the reported number of removals
    encode_calls,    \* approach 2 and 3: number of calls of the embedding model
    sim_matrix,      \* approach 3: cosine_similarity(embeddings)
    threshold,       \* approach 3: the threshold argument
    j,               \* approach 3: inner loop index
    seen,            \* approach 3: set of removed indices
    unique_indices,  \* approach 3: list of kept indices
    duplicates,      \* approach 3: list of (i, j, score) records
    prev_run,        \* approach 3: threshold and removed count of the call before
    batch_size,      \* approach 4: the batch_size argument
    batch_num,       \* approach 4: number of the batch last processed
    batch,           \* approach 4: the batch last processed
    response,        \* approach 4: what the service answered for it
    all_unique_features,  \* approach 4: the output list
    calls,           \* approach 4: the batches submitted to the service, in order
    cosine_matrix,   \* approach 2: util.pytorch_cos_sim(embeddings, embeddings)
    results,         \* approach 2: the rows of the audit table
    nli_result,      \* approach 2: what the classifier answered for the last pair
    nli_calls,       \* approach 2: number of calls of the classifier
    text1,           \* has_contrast: first argument
    text2            \* has_contrast: second argument

sharedVars == <<pc, features, ret, i, removed_count, encode_calls>>

cosVars == <<sim_matrix, threshold, j, seen, unique_indices, duplicates, prev_run>>

llmVars == <<batch_size, batch_num, batch, response, all_unique_features, calls>>

nliVars == <<cosine_matrix, results, nli_result, nli_calls>>

conVars == <<text1, text2>>

vars == <<sharedVars, cosVars, llmVars, nliVars, conVars>>

---------------------------------------------------------------------------
(* Bounds *)

\* Most scenarios in an input of SpecCosine.
MaxN == 3

\* Most scenarios in an input of SpecMono, where the function is called twice.
MonoN == 4

\* Most scenarios in an input of SpecLLM, and the largest batch_size.
MaxLLM == 3

MaxBatch == 3

\* Most scenarios in an input of SpecNLI, and most step units extracted from it.
MaxNLI == 2

MaxSteps == 3

---------------------------------------------------------------------------
(* Texts *)

Keys == {"given", "when", "then"}

Absent == [present |-> FALSE, text |-> <<>>]

Field(t) == [present |-> TRUE, text |-> t]

\* dict.get(key, default)
Get(f, key, default) == IF f[key].present THEN f[key].text ELSE default

LowerMap ==
    ("A" :> "a" @@ "B" :> "b" @@ "C" :> "c" @@ "D" :> "d" @@ "E" :> "e" @@
     "F" :> "f" @@ "G" :> "g" @@ "H" :> "h" @@ "I" :> "i" @@ "J" :> "j" @@
     "K" :> "k" @@ "L" :> "l" @@ "M" :> "m" @@ "N" :> "n" @@ "O" :> "o" @@
     "P" :> "p" @@ "Q" :> "q" @@ "R" :> "r" @@ "S" :> "s" @@ "T" :> "t" @@
     "U" :> "u" @@ "V" :> "v" @@ "W" :> "w" @@ "X" :> "x" @@ "Y" :> "y" @@
     "Z" :> "z")

\* str.lower()
Lower(t) ==
    [k \in 1..Len(t) |-> IF t[k] \in DOMAIN LowerMap THEN LowerMap[t[k]] ELSE t[k]]

\* Python's  sub in t
Contains(sub, t) ==
    \E k \in 0..(Len(t) - Len(sub)) : SubSeq(t, k + 1, k + Len(sub)) = sub

\* The scenario records the inputs are drawn from.
RecApprove ==
    [given |-> Field(<<"u","s","e","r">>),
     when  |-> Field(<<"A","p","p","r","o","v","e">>),
     then  |-> Field(<<"s","a","v","e","d">>)]

RecReject ==
    [given |-> Field(<<"u","s","e","r">>),
     when  |-> Field(<<"r","e","j","e","c","t"," ","i","t">>),
     then  |-> Field(<<"s","a","v","e","d">>)]

RecInvalid ==
    [given |-> Field(<<"u","s","e","r">>),
     when  |-> Field(<<"x">>),
     then  |-> Field(<<"i","n","v","a","l","i","d">>)]

RecEmpty == [given |-> Absent, when |-> Absent, then |-> Absent]

Pool == {RecApprove, RecReject, RecInvalid, RecEmpty}

---------------------------------------------------------------------------
(* Approach 3: remove_duplicates_cosine_90 *)

DefaultThreshold == 90

Thresholds == {80, DefaultThreshold}

\* Similarities of two different texts; identical texts have similarity 100.
SimVals == {80, 90, 95}

N == Cardinality(DOMAIN features)

\* f"Given {f.get('given', '')} When {f.get('when', '')} Then {f.get('then', '')}"
ScenarioText(f) ==
    <<"G","i","v","e","n"," ">> \o Get(f, "given", <<>>) \o
    <<" ","W","h","e","n"," ">> \o Get(f, "when", <<>>) \o
    <<" ","T","h","e","n"," ">> \o Get(f, "then", <<>>)

contrast_pairs ==
    << <<<<"s","u","c","c","e","s","s">>,
         <<"e","r","r","o","r">>>>,
       <<<<"a","p","p","r","o","v","e">>,
         <<"r","e","j","e","c","t">>>>,
       <<<<"c","o","m","p","l","e","t","e","d">>,
         <<"f","a","i","l","e","d">>>>,
       <<<<"a","l","l","o","w">>,
         <<"d","e","n","y">>>>,
       <<<<"g","r","e","e","n">>,
         <<"r","e","d">>>>,
       <<<<"e","n","a","b","l","e","d">>,
         <<"d","i","s","a","b","l","e","d">>>>,
       <<<<"t","r","u","e">>,
         <<"f","a","l","s","e">>>>,
       <<<<"v","a","l","i","d">>,
         <<"i","n","v","a","l","i","d">>>>,
       <<<<"a","c","c","e","p","t","e","d">>,
         <<"r","e","j","e","c","t","e","d">>>>,
       <<<<"a","c","t","i","v","e">>,
         <<"i","n","a","c","t","i","v","e">>>>,
       <<<<"p","a","s","s">>,
         <<"f","a","i","l">>>>,
       <<<<"p","o","s","i","t","i","v","e">>,
         <<"n","e","g","a","t","i","v","e">>>>,
       <<<<"g","r","a","n","t","e","d">>,
         <<"d","e","n","i","e","d">>>>,
       <<<<"a","u","t","h","e","n","t","i","c","a","t","e","d">>,
         <<"u","n","a","u","t","h","o","r","i","z","e","d">>>> >>

\* The test in one direction only: the first term in the first text.
has_contrast_one_way(t1, t2) ==
    \E p \in 1..Len(contrast_pairs) :
        /\ Contains(contrast_pairs[p][1], Lower(t1))
        /\ Contains(contrast_pairs[p][2], Lower(t2))

has_contrast(txt1, txt2) ==
    LET t1 == Lower(txt1)
        t2 == Lower(txt2)
    IN  \E p \in 1..Len(contrast_pairs) :
            LET a == contrast_pairs[p][1]
                b == contrast_pairs[p][2]
            IN  \/ Contains(a, t1) /\ Contains(b, t2)
                \/ Contains(b, t1) /\ Contains(a, t2)

\* f"{whens[k]} {thens[k]}", with whens[k] = f.get('when', '') and thens[k] alike
WhenThen(f) == Get(f, "when", <<>>) \o <<" ">> \o Get(f, "then", <<>>)

\* has_contrast on the When+Then texts of two records, computed once per pair of
\* records of the pool.
Contrast == [f \in Pool, g \in Pool |-> has_contrast(WhenThen(f), WhenThen(g))]

AboveInverted(score, t) == score < t

\* sim_matrix[i, j] > threshold
Above(score, t) == score > t

IsDuplicateNoVeto(a, b) == Above(sim_matrix[a, b], threshold)

\* The condition of the if statement in the inner loop.
IsDuplicate(a, b) ==
    /\ Above(sim_matrix[a, b], threshold)
    /\ ~Contrast[features[a], features[b]]

InSeenNever(k) == FALSE

\* if i in seen
InSeen(k) == k \in seen

\* The similarity matrices an embedding model followed by cosine similarity can
\* return for the texts tx (a function from positions to texts) with the
\* similarities of different texts drawn from vals: symmetric, 100 on the diagonal,
\* and the same text has the same embedding wherever it occurs.
SimMatrices(tx, vals) ==
    LET D == DOMAIN tx
        T == {tx[k] : k \in D}
        TextPairs == {{a, b} : a \in T, b \in T} \ {{a} : a \in T}
    IN  { [p \in D \X D |->
              IF tx[p[1]] = tx[p[2]] THEN 100 ELSE ts[{tx[p[1]], tx[p[2]]}]] :
          ts \in [TextPairs -> vals] }

NoRun == [threshold |-> 0, removed_count |-> 0, called |-> FALSE]

NoResponse == [call |-> "none"]

\* The arguments of has_contrast, unused where the function is not called on its own.
IdleContrast ==
    /\ text1 = <<>>
    /\ text2 = <<>>

\* The variables of approach 4, unused by the other two functions.
IdleLLM ==
    /\ batch_size = 0
    /\ batch_num = 0
    /\ batch = <<>>
    /\ response = NoResponse
    /\ all_unique_features = <<>>
    /\ calls = <<>>

\* The variables of approach 2, unused by the other two functions.
IdleNLI ==
    /\ cosine_matrix = <<>>
    /\ results = <<>>
    /\ nli_result = [label |-> "NONE", score |-> 0]
    /\ nli_calls = 0

\* The variables of approach 3, unused by the other two functions.
IdleCosine ==
    /\ sim_matrix = <<>>
    /\ threshold = 0
    /\ j = 0
    /\ seen = {}
    /\ unique_indices = <<>>
    /\ duplicates = <<>>
    /\ prev_run = NoRun

\* The call of remove_duplicates_cosine_90 on at most maxn scenarios with a
\* threshold of ts, before model.encode(texts) at line 229.
Called(maxn, ts) ==
    /\ \E n \in 0..maxn : features \in [0..(n - 1) -> Pool]
    /\ threshold \in ts
    /\ pc = "encode"
    /\ sim_matrix = <<>>
    /\ encode_calls = 0
    /\ i = 0
    /\ j = 0
    /\ seen = {}
    /\ unique_indices = <<>>
    /\ duplicates = <<>>
    /\ removed_count = 0
    /\ ret = <<>>
    /\ prev_run = NoRun
    /\ IdleLLM
    /\ IdleNLI
    /\ IdleContrast

InitCosine == Called(MaxN, Thresholds)

\* A first call whose threshold a second call can raise.
InitMono == Called(MonoN, {t \in Thresholds : \E t2 \in Thresholds : t2 > t})

\* embeddings = model.encode(texts); sim_matrix = cosine_similarity(embeddings)
Encode ==
    /\ pc = "encode"
    /\ sim_matrix' \in SimMatrices([k \in DOMAIN features |-> ScenarioText(features[k])],
                                   SimVals)
    /\ encode_calls' = encode_calls + 1
    /\ pc' = "outer"
    /\ UNCHANGED <<features, ret, i, removed_count>>
    /\ UNCHANGED <<threshold, j, seen, unique_indices, duplicates, prev_run>>
    /\ UNCHANGED <<llmVars, nliVars, conVars>>

\* for i in range(len(features)): if i in seen: continue
SkipSeen ==
    /\ pc = "outer"
    /\ i < N
    /\ InSeen(i)
    /\ i' = i + 1
    /\ UNCHANGED <<pc, features, ret, removed_count, encode_calls>>
    /\ UNCHANGED <<cosVars, llmVars, nliVars, conVars>>

EnterInnerFromZero ==
    /\ pc = "outer"
    /\ i < N
    /\ ~InSeen(i)
    /\ pc' = "inner"
    /\ j' = 0
    /\ UNCHANGED <<features, ret, i, removed_count, encode_calls>>
    /\ UNCHANGED <<sim_matrix, threshold, seen, unique_indices, duplicates, prev_run>>
    /\ UNCHANGED <<llmVars, nliVars, conVars>>

\* The inner loop starting one index late, at i + 2.
EnterInnerSkipNext ==
    /\ pc = "outer"
    /\ i < N
    /\ ~InSeen(i)
    /\ pc' = "inner"
    /\ j' = i + 2
    /\ UNCHANGED <<features, ret, i, removed_count, encode_calls>>
    /\ UNCHANGED <<sim_matrix, threshold, seen, unique_indices, duplicates, prev_run>>
    /\ UNCHANGED <<llmVars, nliVars, conVars>>

\* i is not in seen: the inner loop starts at i + 1
EnterInner ==
    /\ pc = "outer"
    /\ i < N
    /\ ~InSeen(i)
    /\ pc' = "inner"
    /\ j' = i + 1
    /\ UNCHANGED <<features, ret, i, removed_count, encode_calls>>
    /\ UNCHANGED <<sim_matrix, threshold, seen, unique_indices, duplicates, prev_run>>
    /\ UNCHANGED <<llmVars, nliVars, conVars>>

\* An iteration of the inner loop that marks the anchor i, not j, as seen.
CompareMarksAnchor ==
    /\ pc = "inner"
    /\ j < N
    /\ IF IsDuplicate(i, j)
       THEN /\ seen' = seen \cup {i}
            /\ duplicates' = Append(duplicates,
                                    [a |-> i, b |-> j, score |-> sim_matrix[i, j]])
       ELSE UNCHANGED <<seen, duplicates>>
    /\ j' = j + 1
    /\ UNCHANGED <<sharedVars, llmVars, nliVars, conVars>>
    /\ UNCHANGED <<sim_matrix, threshold, unique_indices, prev_run>>

\* An iteration of the inner loop that embeds the two texts again.
CompareEmbedding ==
    /\ pc = "inner"
    /\ j < N
    /\ IF IsDuplicate(i, j)
       THEN /\ seen' = seen \cup {j}
            /\ duplicates' = Append(duplicates,
                                    [a |-> i, b |-> j, score |-> sim_matrix[i, j]])
       ELSE UNCHANGED <<seen, duplicates>>
    /\ j' = j + 1
    /\ encode_calls' = encode_calls + 1
    /\ UNCHANGED <<pc, features, ret, i, removed_count>>
    /\ UNCHANGED <<llmVars, nliVars, conVars>>
    /\ UNCHANGED <<sim_matrix, threshold, unique_indices, prev_run>>

\* One iteration of the inner loop.
Compare ==
    /\ pc = "inner"
    /\ j < N
    /\ IF IsDuplicate(i, j)
       THEN /\ seen' = seen \cup {j}
            /\ duplicates' = Append(duplicates,
                                    [a |-> i, b |-> j, score |-> sim_matrix[i, j]])
       ELSE UNCHANGED <<seen, duplicates>>
    /\ j' = j + 1
    /\ UNCHANGED <<sharedVars, llmVars, nliVars, conVars>>
    /\ UNCHANGED <<sim_matrix, threshold, unique_indices, prev_run>>

\* The inner loop is over: unique_indices.append(i)
AppendUnique ==
    /\ pc = "inner"
    /\ j >= N
    /\ unique_indices' = Append(unique_indices, i)
    /\ i' = i + 1
    /\ pc' = "outer"
    /\ UNCHANGED <<features, ret, removed_count, encode_calls>>
    /\ UNCHANGED <<sim_matrix, threshold, j, seen, duplicates, prev_run>>
    /\ UNCHANGED <<llmVars, nliVars, conVars>>

\* r put into s, which is sorted by falling score, behind the records of its score
SortInsert(s, r) ==
    LET lower == {k \in 1..Len(s) : s[k].score < r.score}
        m == CHOOSE k \in lower : \A l \in lower : k <= l
    IN  IF lower = {} THEN Append(s, r)
        ELSE SubSeq(s, 1, m - 1) \o <<r>> \o SubSeq(s, m, Len(s))

\* sorted(duplicates, key=lambda x: x[2], reverse=True): stable
SortedByScore(seq) ==
    LET F[k \in 0..Len(seq)] == IF k = 0 THEN <<>> ELSE SortInsert(F[k - 1], seq[k])
    IN  F[Len(seq)]

\* The outer loop is over: removed_count, the report of the duplicates (sorted, when
\* show_duplicates is set) and the returned list.
Finish ==
    /\ pc = "outer"
    /\ i >= N
    /\ removed_count' = N - Len(unique_indices)
    /\ \E show_duplicates \in BOOLEAN :
          duplicates' = IF show_duplicates /\ duplicates # <<>>
                        THEN SortedByScore(duplicates)
                        ELSE duplicates
    /\ ret' = [k \in 1..Len(unique_indices) |-> features[unique_indices[k]]]
    /\ pc' = "done"
    /\ UNCHANGED <<features, i, encode_calls>>
    /\ UNCHANGED <<sim_matrix, threshold, j, seen, unique_indices, prev_run>>
    /\ UNCHANGED <<llmVars, nliVars, conVars>>

\* The function is called again on the same features with a higher threshold; the
\* embedding model gives the same texts the same embeddings again.
CallAgain ==
    /\ pc = "done"
    /\ ~prev_run.called
    /\ \E t \in Thresholds : t > threshold /\ threshold' = t
    /\ prev_run' = [threshold |-> threshold, removed_count |-> removed_count,
                    called |-> TRUE]
    /\ encode_calls' = encode_calls + 1
    /\ pc' = "outer"
    /\ i' = 0
    /\ j' = 0
    /\ seen' = {}
    /\ unique_indices' = <<>>
    /\ duplicates' = <<>>
    /\ removed_count' = 0
    /\ ret' = <<>>
    /\ UNCHANGED <<features, sim_matrix>>
    /\ UNCHANGED <<llmVars, nliVars, conVars>>

NextCosine ==
    \/ Encode
    \/ SkipSeen
    \/ EnterInner
    \/ Compare
    \/ AppendUnique
    \/ Finish

SpecCosine == InitCosine /\ [][NextCosine]_vars

NextMono ==
    \/ Encode
    \/ SkipSeen
    \/ EnterInner
    \/ Compare
    \/ AppendUnique
    \/ Finish
    \/ CallAgain

SpecMono == InitMono /\ [][NextMono]_vars

---------------------------------------------------------------------------
(* has_contrast, called on its own *)

\* Texts the arguments are drawn from: without a term, with one term in lower or
\* upper case, with a term inside a longer word ("red" in "registered", "valid" in
\* "invalid") and with both terms of a pair.
SampleTexts ==
    { <<>>,
      <<"x">>,
      <<"s","a","v","e","d">>,
      <<"A","p","p","r","o","v","e">>,
      <<"r","e","j","e","c","t"," ","i","t">>,
      <<"v","a","l","i","d">>,
      <<"i","n","v","a","l","i","d">>,
      <<"E","R","R","O","R">>,
      <<"s","u","c","c","e","s","s">>,
      <<"r","e","g","i","s","t","e","r","e","d">>,
      <<"g","r","e","e","n">>,
      <<"P","A","S","S"," ","f","a","i","l">> }

\* A call has_contrast(text1, text2), at line 247.
InitContrast ==
    /\ text1 \in SampleTexts
    /\ text2 \in SampleTexts
    /\ pc = "has_contrast"
    /\ ret = <<>>
    /\ features = <<>>
    /\ i = 0
    /\ removed_count = 0
    /\ encode_calls = 0
    /\ IdleCosine
    /\ IdleLLM
    /\ IdleNLI

\* Lines 248-253: the function returns its result.
ReturnContrast ==
    /\ pc = "has_contrast"
    /\ ret' = has_contrast(text1, text2)
    /\ pc' = "returned"
    /\ UNCHANGED <<features, i, removed_count, encode_calls>>
    /\ UNCHANGED <<cosVars, llmVars, nliVars, conVars>>

NextContrast == ReturnContrast

SpecContrast == InitContrast /\ [][NextContrast]_vars

---------------------------------------------------------------------------
(* Approach 4: clean_duplicates_with_llm *)

\* The records the inputs of approach 4 are drawn from.
LLMPool == {RecApprove, RecReject}

\* A slice with its end included: one scenario more than size.
SliceEndIncluded(fs, a, size) ==
    LET n == Cardinality(DOMAIN fs)
        last == IF a + size + 1 < n THEN a + size + 1 ELSE n
    IN  [k \in 1..(last - a) |-> fs[a + k - 1]]

\* Python's features[a:a + size] of a 0-based list, as a sequence
Slice(fs, a, size) ==
    LET n == Cardinality(DOMAIN fs)
        last == IF a + size < n THEN a + size ELSE n
    IN  [k \in 1..(last - a) |-> fs[a + k - 1]]

\* JSON values, as far as the function tells them apart.  A "features" or "removed"
\* member of an object is Missing, null or a list.
NoneValue == [t |-> "none"]

Missing == [t |-> "missing"]

JNull == [t |-> "null"]

JNum == [t |-> "num"]

JStr == [t |-> "str"]

JList(items) == [t |-> "list", items |-> items]

\* other: the object has members besides "features" and "removed" (an error object)
JObj(f, r, other) == [t |-> "obj", features |-> f, removed |-> r, other |-> other]

\* An element of "removed": the scenario with the reason of its removal.
RemovedItem(rec) == [t |-> "obj", rec |-> rec, reason |-> "duplicate"]

\* Python's truth value of a parsed response
Truthy(v) ==
    CASE v.t \in {"none", "null"} -> FALSE
      [] v.t = "list" -> v.items # <<>>
      [] v.t = "obj" -> v.features.t # "missing" \/ v.removed.t # "missing" \/ v.other
      [] OTHER -> TRUE

\* The elements of b at the positions S, in order.
Sub(b, S) ==
    LET F[k \in 0..Len(b)] ==
            IF k = 0 THEN <<>>
            ELSE IF k \in S THEN Append(F[k - 1], b[k]) ELSE F[k - 1]
    IN  F[Len(b)]

MapRemoved(b) == [k \in 1..Len(b) |-> RemovedItem(b[k])]

\* What the service can answer in JSON for batch b: a keep/remove split of the batch,
\* or something else.
Values(b) ==
    { JObj(JList(Sub(b, S)), JList(MapRemoved(Sub(b, (1..Len(b)) \ S))), FALSE) :
        S \in SUBSET (1..Len(b)) }
    \cup
    { JNum,
      JList(b),
      JObj(Missing, Missing, FALSE),
      JObj(Missing, Missing, TRUE),
      JObj(JList(b), Missing, FALSE),
      JObj(JNull, JList(<<>>), FALSE),
      JObj(JList(b), JNull, FALSE),
      JObj(JList(b), JList(<<JStr>>), FALSE),
      JObj(JList(b), JList(MapRemoved(b)), FALSE) }

EmptyText == [kind |-> "empty"]

Garbage == [kind |-> "garbage"]

JsonText(v) == [kind |-> "json", val |-> v]

Raises == [call |-> "raises", parsed |-> NoneValue, text |-> EmptyText]

Answer(parsed, text) == [call |-> "ok", parsed |-> parsed, text |-> text]

\* The outcomes of client.models.generate_content for batch b: an exception, or a
\* response with its parsed attribute and its text.
Responses(b) ==
    {Raises, Answer(NoneValue, EmptyText), Answer(NoneValue, Garbage)}
    \cup { Answer(NoneValue, JsonText(v)) : v \in Values(b) }
    \cup { Answer(v, JsonText(v)) : v \in Values(b) }

\* Lines 285-300: the result of the response, "empty" for the empty response and
\* "exception" when json.loads raises.  strip() only removes a code fence.
Parse(resp) ==
    IF Truthy(resp.parsed) THEN [kind |-> "result", val |-> resp.parsed]
    ELSE IF resp.text.kind = "json" THEN [kind |-> "result", val |-> resp.text.val]
    ELSE IF resp.text.kind = "garbage" THEN [kind |-> "exception", val |-> NoneValue]
    ELSE [kind |-> "empty", val |-> NoneValue]

\* result.get(key, []) of an object
GetList(member) == IF member.t = "missing" THEN JList(<<>>) ELSE member

KeepAllDropped(out, b) == out

\* all_unique_features.extend(batch), lines 299 and 323
KeepAll(out, b) == out \o b

\* Batches whose removals are printed, and removals printed per batch.
SampleBatches == 3

SampleItems == 3

\* item.get raises for an element that is no object
SampleRaises(removed, num) ==
    /\ removed # <<>>
    /\ num <= SampleBatches
    /\ \E k \in 1..Len(removed) : k <= SampleItems /\ removed[k].t # "obj"

\* The body of the loop for batch b, number num, answered by resp: the output list
\* and the removed count after it.
Merge(resp, b, num, out, cnt) ==
    LET parsed == Parse(resp)
        result == parsed.val
        kept == GetList(result.features)
        removed == GetList(result.removed)
        out1 == out \o kept.items
        cnt1 == cnt + Len(removed.items)
    IN  IF resp.call = "raises" THEN [out |-> KeepAll(out, b), cnt |-> cnt]
        ELSE IF parsed.kind = "empty" THEN [out |-> KeepAll(out, b), cnt |-> cnt]
        ELSE IF parsed.kind = "exception" THEN [out |-> KeepAll(out, b), cnt |-> cnt]
        \* result.get raises for a value that is no object
        ELSE IF result.t # "obj" THEN [out |-> KeepAll(out, b), cnt |-> cnt]
        \* extend(None) raises
        ELSE IF kept.t # "list" THEN [out |-> KeepAll(out, b), cnt |-> cnt]
        \* len(None) raises, after extend(kept)
        ELSE IF removed.t # "list" THEN [out |-> KeepAll(out1, b), cnt |-> cnt]
        \* item.get raises, after extend(kept) and removed_count += len(removed)
        ELSE IF SampleRaises(removed.items, num)
             THEN [out |-> KeepAll(out1, b), cnt |-> cnt1]
        ELSE [out |-> out1, cnt |-> cnt1]

\* The call of clean_duplicates_with_llm, at line 213.
InitLLM ==
    /\ \E n \in 0..MaxLLM : features \in [0..(n - 1) -> LLMPool]
    /\ batch_size \in 1..MaxBatch
    /\ pc = "start"
    /\ i = 0
    /\ batch_num = 0
    /\ batch = <<>>
    /\ response = NoResponse
    /\ all_unique_features = <<>>
    /\ calls = <<>>
    /\ removed_count = 0
    /\ ret = <<>>
    /\ encode_calls = 0
    /\ IdleCosine
    /\ IdleNLI
    /\ IdleContrast

\* if total_features == 0: return bdd_json_data
ReturnInput ==
    /\ pc = "start"
    /\ N = 0
    /\ ret' = [features |-> <<>>]
    /\ pc' = "done"
    /\ UNCHANGED <<features, i, removed_count, encode_calls>>
    /\ UNCHANGED <<cosVars, llmVars, nliVars, conVars>>

\* Lines 223-224
StartBatches ==
    /\ pc = "start"
    /\ N > 0
    /\ pc' = "batches"
    /\ UNCHANGED <<features, ret, i, removed_count, encode_calls>>
    /\ UNCHANGED <<cosVars, llmVars, nliVars, conVars>>

\* One iteration of the loop over the batches, lines 227-323.
ProcessBatch ==
    /\ pc = "batches"
    /\ i < N
    /\ LET b == Slice(features, i, batch_size)
       IN  \E resp \in Responses(b) :
             LET m == Merge(resp, b, batch_num + 1, all_unique_features, removed_count)
             IN  /\ batch' = b
                 /\ batch_num' = batch_num + 1
                 /\ calls' = Append(calls, b)
                 /\ response' = resp
                 /\ all_unique_features' = m.out
                 /\ removed_count' = m.cnt
    /\ i' = i + batch_size
    /\ UNCHANGED <<pc, features, ret, encode_calls, batch_size>>
    /\ UNCHANGED <<cosVars, nliVars, conVars>>

\* return {"features": all_unique_features}
ReturnLLM ==
    /\ pc = "batches"
    /\ i >= N
    /\ ret' = [features |-> all_unique_features]
    /\ pc' = "done"
    /\ UNCHANGED <<features, i, removed_count, encode_calls>>
    /\ UNCHANGED <<cosVars, llmVars, nliVars, conVars>>

NextLLM ==
    \/ ReturnInput
    \/ StartBatches
    \/ ProcessBatch
    \/ ReturnLLM

SpecLLM == InitLLM /\ [][NextLLM]_vars

---------------------------------------------------------------------------
(* Approach 2: analyze_bdd_steps_with_nli *)

\* Records with one or two fields, with an empty and a whitespace-only field, and
\* sharing a Given text.
RecGivenWhen ==
    [given |-> Field(<<"u","s","e","r">>),
     when  |-> Field(<<"A","p","p","r","o","v","e">>),
     then  |-> Absent]

RecBlankThen ==
    [given |-> Absent,
     when  |-> Field(<<>>),
     then  |-> Field(<<" ">>)]

RecGivenOnly ==
    [given |-> Field(<<"u","s","e","r">>), when |-> Absent, then |-> Absent]

NLIPool == {RecGivenWhen, RecGivenOnly, RecBlankThen, RecEmpty}

KeyOrder == <<"given", "when", "then">>

\* key.capitalize()
Capitalized ==
    [given |-> <<"G","i","v","e","n">>,
     when  |-> <<"W","h","e","n">>,
     then  |-> <<"T","h","e","n">>]

\* text = feature.get(key); if text: a field that is absent or empty is skipped
HasText(f, key) == f[key].present /\ f[key].text # <<>>

\* f"{key.capitalize()}: {text}"
StepText(f, key) == Capitalized[key] \o <<":", " ">> \o f[key].text

\* The steps of one record, in the order of KeyOrder.
StepsOf(f) ==
    LET F[k \in 0..Len(KeyOrder)] ==
            IF k = 0 THEN <<>>
            ELSE IF HasText(f, KeyOrder[k])
                 THEN Append(F[k - 1], StepText(f, KeyOrder[k]))
                 ELSE F[k - 1]
    IN  F[Len(KeyOrder)]

\* Lines 220-225: the steps of all records, in the order of the records.
ExtractSteps(fs) ==
    LET n == Cardinality(DOMAIN fs)
        F[k \in 0..n] == IF k = 0 THEN <<>> ELSE F[k - 1] \o StepsOf(fs[k - 1])
    IN  F[n]

bdd_steps == ExtractSteps(features)

\* The pairs of the different texts of the list only: a text standing at several
\* positions counts once.
CombinationsOfTexts(steps) ==
    LET D[k \in 0..Len(steps)] ==
            IF k = 0 THEN <<>>
            ELSE IF \E m \in 1..(k - 1) : steps[m] = steps[k]
                 THEN D[k - 1]
                 ELSE Append(D[k - 1], steps[k])
        texts == D[Len(steps)]
        n == Len(texts)
        Row[p \in 1..n] == [q \in 1..(n - p) |-> <<texts[p], texts[p + q]>>]
        F[p \in 0..n] == IF p = 0 THEN <<>> ELSE F[p - 1] \o Row[p]
    IN  F[n]

\* list(itertools.combinations(steps, 2)): the pairs of texts at positions p < q, in
\* lexicographic order of (p, q)
Combinations(steps) ==
    LET n == Len(steps)
        Row[p \in 1..n] == [q \in 1..(n - p) |-> <<steps[p], steps[p + q]>>]
        F[p \in 0..n] == IF p = 0 THEN <<>> ELSE F[p - 1] \o Row[p]
    IN  F[n]

pairs == Combinations(bdd_steps)

\* list.index: the first position of a text
Index(steps, text) ==
    CHOOSE p \in 1..Len(steps) :
        steps[p] = text /\ \A q \in 1..(p - 1) : steps[q] # text

\* Similarities of two different step texts.
StepSimVals == {60, 80, 90}

\* if sim_score > 0.6
RelationGate == 60

\* if sim_score > 0.8
LowThreshold == 80

\* The gate with a pair at exactly 0.6 let through.
AboveGateOrAt(sim_score) == sim_score >= RelationGate

\* if sim_score > 0.6, line 261
AboveGate(sim_score) == sim_score > RelationGate

Labels == {"ENTAILMENT", "CONTRADICTION", "NEUTRAL"}

\* nli_model(nli_input)[0]: a label with a score (in percent), or an exception
NLIOutcomes ==
    [label : Labels, score : {70}] \cup {[label |-> "EXCEPTION", score |-> 0]}

\* The decision with the low threshold included among the similar pairs.
DecisionAtLeast(sim_score, label) ==
    IF sim_score >= LowThreshold
    THEN IF label = "ENTAILMENT" THEN "Likely Duplicate"
         ELSE IF label = "CONTRADICTION" THEN "Contradictory"
         ELSE "Similar but Unclear"
    ELSE "Not Similar"

\* Lines 269-277
Decision(sim_score, label) ==
    IF sim_score > LowThreshold
    THEN IF label = "ENTAILMENT" THEN "Likely Duplicate"
         ELSE IF label = "CONTRADICTION" THEN "Contradictory"
         ELSE "Similar but Unclear"
    ELSE "Not Similar"

Row(s1, s2, sim_score, label, conf) ==
    [step1 |-> s1, step2 |-> s2, similarity |-> sim_score, label |-> label,
     confidence |-> conf, decision |-> Decision(sim_score, label)]

\* The call of analyze_bdd_steps_with_nli, at line 219.
InitNLI ==
    /\ \E n \in 0..MaxNLI : features \in [0..(n - 1) -> NLIPool]
    /\ Len(bdd_steps) <= MaxSteps
    /\ pc = "embed"
    /\ i = 0
    /\ cosine_matrix = <<>>
    /\ results = <<>>
    /\ nli_result = [label |-> "NONE", score |-> 0]
    /\ nli_calls = 0
    /\ encode_calls = 0
    /\ removed_count = 0
    /\ ret = <<>>
    /\ IdleCosine
    /\ IdleLLM
    /\ IdleContrast

\* embeddings = embedder.encode(bdd_steps); cosine_matrix = util.pytorch_cos_sim(...)
EncodeSteps ==
    /\ pc = "embed"
    /\ cosine_matrix' \in SimMatrices(bdd_steps, StepSimVals)
    /\ encode_calls' = encode_calls + 1
    /\ pc' = "pairs"
    /\ UNCHANGED <<features, ret, i, removed_count>>
    /\ UNCHANGED <<results, nli_result, nli_calls>>
    /\ UNCHANGED <<cosVars, llmVars, conVars>>

\* One iteration of the loop over the pairs whose similarity is at most the gate:
\* the classifier is not called.
BelowGate ==
    /\ pc = "pairs"
    /\ i < Len(pairs)
    /\ LET s1 == pairs[i + 1][1]
           s2 == pairs[i + 1][2]
           sim_score == cosine_matrix[Index(bdd_steps, s1), Index(bdd_steps, s2)]
       IN  /\ ~AboveGate(sim_score)
           /\ results' = Append(results, Row(s1, s2, sim_score, "NEUTRAL", 100))
    /\ i' = i + 1
    /\ UNCHANGED <<pc, features, ret, removed_count, encode_calls>>
    /\ UNCHANGED <<cosine_matrix, nli_result, nli_calls>>
    /\ UNCHANGED <<cosVars, llmVars, conVars>>

\* One iteration for a pair above the gate: the classifier answers with a label.
Classify ==
    /\ pc = "pairs"
    /\ i < Len(pairs)
    /\ LET s1 == pairs[i + 1][1]
           s2 == pairs[i + 1][2]
           sim_score == cosine_matrix[Index(bdd_steps, s1), Index(bdd_steps, s2)]
       IN  /\ AboveGate(sim_score)
           /\ \E r \in NLIOutcomes :
                /\ r.label # "EXCEPTION"
                /\ nli_result' = r
                /\ results' = Append(results, Row(s1, s2, sim_score, r.label, r.score))
    /\ nli_calls' = nli_calls + 1
    /\ i' = i + 1
    /\ UNCHANGED <<pc, features, ret, removed_count, encode_calls>>
    /\ UNCHANGED <<cosine_matrix>>
    /\ UNCHANGED <<cosVars, llmVars, conVars>>

\* The classifier raises at line 263: nothing catches the exception, which leaves
\* the function.
ClassifyRaises ==
    /\ pc = "pairs"
    /\ i < Len(pairs)
    /\ LET s1 == pairs[i + 1][1]
           s2 == pairs[i + 1][2]
           sim_score == cosine_matrix[Index(bdd_steps, s1), Index(bdd_steps, s2)]
       IN  AboveGate(sim_score)
    /\ nli_result' = [label |-> "EXCEPTION", score |-> 0]
    /\ nli_calls' = nli_calls + 1
    /\ pc' = "raised"
    /\ UNCHANGED <<features, ret, i, removed_count, encode_calls>>
    /\ UNCHANGED <<cosine_matrix, results>>
    /\ UNCHANGED <<cosVars, llmVars, conVars>>

\* return df_results, bdd_steps
ReturnNLI ==
    /\ pc = "pairs"
    /\ i >= Len(pairs)
    /\ ret' = [df_results |-> results, bdd_steps |-> bdd_steps]
    /\ pc' = "done"
    /\ UNCHANGED <<features, i, removed_count, encode_calls>>
    /\ UNCHANGED <<cosVars, llmVars, nliVars, conVars>>

NextNLI ==
    \/ EncodeSteps
    \/ BelowGate
    \/ Classify
    \/ ClassifyRaises
    \/ ReturnNLI

SpecNLI == InitNLI /\ [][NextNLI]_vars

---------------------------------------------------------------------------
(* The two functions that embed their texts: a run of either *)

InitEmbed == InitCosine \/ InitNLI

NextEmbed ==
    \/ Encode
    \/ SkipSeen
    \/ EnterInner
    \/ Compare
    \/ AppendUnique
    \/ Finish
    \/ EncodeSteps
    \/ BelowGate
    \/ Classify
    \/ ClassifyRaises
    \/ ReturnNLI

SpecEmbed == InitEmbed /\ [][NextEmbed]_vars

---------------------------------------------------------------------------
(* Claims about approach 3 *)

Kept == {unique_indices[k] : k \in 1..Len(unique_indices)}

Records == {duplicates[k] : k \in 1..Len(duplicates)}

\* C1: when remove_duplicates_cosine_90 finishes, every index 0..n-1 is in exactly
\* one of unique_indices (kept, each once) and seen (removed), the counts add up to n
\* and the returned list is the kept records.
C1_Partition ==
    pc = "done" =>
        /\ Kept \cap seen = {}
        /\ Kept \cup seen = 0..(N - 1)
        /\ Cardinality(Kept) = Len(unique_indices)
        /\ Len(unique_indices) + Cardinality(seen) = N
        /\ removed_count = Cardinality(seen)
        /\ Len(ret) = Len(unique_indices)

C1_Witness == pc = "done" /\ seen # {} /\ Len(unique_indices) >= 2

\* C2: the duplicates list never holds two records with the same removed index.
C2_OneRecordPerRemoved ==
    \A p, q \in 1..Len(duplicates) :
        p # q => duplicates[p].b # duplicates[q].b

\* C3: every removal record (a, b) has a < b, its anchor a is not a removed index,
\* and no index of the kept list is ever in the removed set.
C3_EarlierSurvives ==
    /\ \A r \in Records : r.a < r.b /\ r.a \notin seen
    /\ Kept \cap seen = {}
    /\ pc = "inner" => i \notin seen

C3_Witness ==
    /\ pc = "done"
    /\ \E r \in Records : r.a > 0

\* C4: no removal record is for a pair whose When+Then texts contrast.
C4_ContrastVeto ==
    \A r \in Records : ~Contrast[features[r.a], features[r.b]]

C4_Witness ==
    /\ pc = "done"
    /\ duplicates # <<>>
    /\ \E a \in Kept : \E b \in Kept :
          /\ a < b
          /\ Above(sim_matrix[a, b], threshold)
          /\ Contrast[features[a], features[b]]

\* C5 as claimed: a call with a higher threshold on the same input never removes
\* more than the call before.
C5_Monotone ==
    (pc = "done" /\ prev_run.called) => removed_count <= prev_run.removed_count

\* C5 amended: every removal record of the call with the higher threshold has a score
\* above the lower threshold too; if the call with the lower threshold removed
\* nothing, neither does this one; and for at most 3 scenarios the count does not grow.
C5_Amended ==
    (pc = "done" /\ prev_run.called) =>
        /\ \A r \in Records : r.score > prev_run.threshold
        /\ prev_run.removed_count = 0 => removed_count = 0
        /\ N <= 3 => removed_count <= prev_run.removed_count

C5_Witness ==
    /\ pc = "done"
    /\ prev_run.called
    /\ removed_count > 0
    /\ removed_count < prev_run.removed_count

---------------------------------------------------------------------------
(* Claims about approach 4 *)

\* The call raised, or the response is empty: no parsed value and no text.
ServiceFailed(r) ==
    \/ r.call = "raises"
    \/ r.call = "ok" /\ ~Truthy(r.parsed) /\ r.text.kind = "empty"

\* The shape the function expects: an object with a list of features and, if it has
\* a "removed" member, a list of objects.
ExpectedShape(v) ==
    /\ v.t = "obj"
    /\ v.features.t = "list"
    /\ v.removed.t \in {"list", "missing"}
    /\ v.removed.t = "list" =>
          \A k \in 1..Len(v.removed.items) : v.removed.items[k].t = "obj"

\* The response is there but does not parse to the expected shape.
Unparseable(r) ==
    /\ r.call = "ok"
    /\ Parse(r).kind # "empty"
    /\ Parse(r).kind = "exception" \/ ~ExpectedShape(Parse(r).val)

\* A batch has just been processed.
BatchStep == batch_num' = batch_num + 1

\* C6: when the call for a batch raises or the response is empty, the output grows
\* by exactly the batch (the slice of the input at the batch start), the removed
\* count stays, and the loop goes on with the next batch.
C6_FailOpenBatch ==
    [][(BatchStep /\ ServiceFailed(response')) =>
          /\ batch' = Slice(features, i, batch_size)
          /\ all_unique_features' = all_unique_features \o batch'
          /\ removed_count' = removed_count
          /\ pc' = "batches"
          /\ i' = i + batch_size]_vars

C6_Witness ==
    /\ ServiceFailed(response)
    /\ pc = "batches"
    /\ Len(batch) >= 2
    /\ i < N
    /\ all_unique_features = batch

\* C7: when the response does not parse to the expected shape, the output grows by
\* exactly the batch.
C7_UnparseableKept ==
    [][(BatchStep /\ Unparseable(response')) =>
          all_unique_features' = all_unique_features \o batch']_vars

\* C8: when the last batch was kept because the service failed or its response did
\* not parse, the returned value carries something besides the features.
C8_FlaggedUnprocessed ==
    (pc = "done" /\ batch_num > 0 /\ (ServiceFailed(response) \/ Unparseable(response)))
        => DOMAIN ret # {"features"}

\* C9: the returned features and the removed count add up to the input.
C9_EveryInputAccounted ==
    pc = "done" => Len(ret.features) + removed_count = N

---------------------------------------------------------------------------
(* Claims about approach 2 *)

\* C10: when the classifier fails for a pair, the run goes on and the pair has a row
\* with label NEUTRAL and confidence 0.
C10_DegradeAndContinue ==
    nli_result.label = "EXCEPTION" =>
        /\ pc # "raised"
        /\ results # <<>>
        /\ results[Len(results)].label = "NEUTRAL"
        /\ results[Len(results)].confidence = 0

\* The decision the table of the specification gives to a similarity (in
\* hundredths) and a label.
DecisionTable(similarity, label) ==
    CASE similarity <= 80 -> "Not Similar"
      [] similarity > 80 /\ label = "ENTAILMENT" -> "Likely Duplicate"
      [] similarity > 80 /\ label = "CONTRADICTION" -> "Contradictory"
      [] similarity > 80 /\ label = "NEUTRAL" -> "Similar but Unclear"

\* C11: the decision of every row is the one the table gives to the row's
\* similarity and label: at most 0.8 is not similar whatever the label, above 0.8
\* the label decides; rows with the same similarity and label have the same
\* decision wherever they stand in the table.
C11_DecisionTable ==
    \A k \in 1..Len(results) :
        /\ results[k].label \in Labels
        /\ results[k].decision = DecisionTable(results[k].similarity, results[k].label)

\* A pair at exactly 0.8 that the classifier called an entailment, next to a pair
\* above 0.8 with the same label.
C11_Witness ==
    \E k, m \in 1..Len(results) :
        /\ results[k].similarity = 80 /\ results[k].label = "ENTAILMENT"
        /\ results[m].similarity > 80 /\ results[m].label = "ENTAILMENT"

\* A field the contract skips: absent, empty or made of whitespace only.
Blank(f, key) ==
    \/ ~f[key].present
    \/ \A k \in 1..Len(f[key].text) : f[key].text[k] \in {" "}

\* The step units of the contract: for each record in order, the fields Given, When,
\* Then that are not blank.
ContractSteps(fs) ==
    LET n == Cardinality(DOMAIN fs)
        Unit(f, key) == IF Blank(f, key) THEN <<>> ELSE <<StepText(f, key)>>
        F[k \in 0..n] ==
            IF k = 0 THEN <<>>
            ELSE F[k - 1] \o Unit(fs[k - 1], "given") \o Unit(fs[k - 1], "when")
                          \o Unit(fs[k - 1], "then")
    IN  F[n]

\* C12: the steps the function returns are one step per field that is not absent,
\* empty or whitespace-only, in the order of the records and then Given, When, Then.
C12_StepExtraction ==
    pc = "done" => ret.bdd_steps = ContractSteps(features)

---------------------------------------------------------------------------
(* Claims about has_contrast *)

\* A character with its case folded.
Fold(c) == IF c \in DOMAIN LowerMap THEN LowerMap[c] ELSE c

\* A lexicon term occurs in a text at some position, whatever the case of the text.
Occurs(term, text) ==
    \E k \in 1..(Len(text) - Len(term) + 1) :
        \A m \in 1..Len(term) : Fold(text[k + m - 1]) = term[m]

\* Some pair of the lexicon has one term in one text and the other term in the
\* other text.
SplitPair(x, y) ==
    \E p \in 1..Len(contrast_pairs) :
        \E a, b \in {contrast_pairs[p][1], contrast_pairs[p][2]} :
            a # b /\ Occurs(a, x) /\ Occurs(b, y)

NoTerm(text) ==
    \A p \in 1..Len(contrast_pairs) :
        ~Occurs(contrast_pairs[p][1], text) /\ ~Occurs(contrast_pairs[p][2], text)

\* C13: has_contrast returns true exactly when a pair of the lexicon is split over
\* the two texts, case-insensitively; the same call with the arguments exchanged
\* gives the same result; without any term in either text the result is false.
C13_HasContrast ==
    pc = "returned" =>
        /\ ret = SplitPair(text1, text2)
        /\ ret = has_contrast(text2, text1)
        /\ (NoTerm(text1) /\ NoTerm(text2)) => ~ret

\* The second term of a pair in upper case in the first text and the first term in
\* the second text.
C13_Witness ==
    /\ pc = "returned"
    /\ ret = TRUE
    /\ text1 = <<"E","R","R","O","R">>
    /\ text2 = <<"s","u","c","c","e","s","s">>

---------------------------------------------------------------------------
(* Further claims about the three functions *)

\* A record without given, when and then.
AllMissing(f) == \A key \in Keys : ~f[key].present

\* C14: a record missing all three fields is kept without being compared: it is
\* never removed as a duplicate and never the record another one is removed for.
C14_EmptyRecordKept ==
    /\ \A k \in seen : ~AllMissing(features[k])
    /\ \A r \in Records : ~AllMissing(features[r.a]) /\ ~AllMissing(features[r.b])

\* The response parsed to the expected shape.
WellFormed(r) ==
    r.call = "ok" /\ Parse(r).kind = "result" /\ ExpectedShape(Parse(r).val)

\* The scenarios the service marked for removal in a well-formed response, each with
\* its reason.
MarkedRemoved(r) ==
    IF WellFormed(r) THEN GetList(Parse(r).val.removed).items ELSE <<>>

\* C15: the returned value holds, under "removed", every scenario the service marked
\* for removal in the last batch together with its reason.
C15_RationalePreserved ==
    (pc = "done" /\ batch_num > 0) =>
        \A k \in 1..Len(MarkedRemoved(response)) :
            /\ "removed" \in DOMAIN ret
            /\ \E m \in 1..Len(ret.removed) : ret.removed[m] = MarkedRemoved(response)[k]

\* The rows written so far for pairs above the gate of 0.6.
RowsAboveGate == {k \in 1..Len(results) : results[k].similarity > 60}

\* C16: the classifier has been called once for every pair above the gate and for no
\* other pair (a call that raised has no row), and every row at or below the gate
\* has label NEUTRAL and confidence 1.
C16_GatedClassifier ==
    /\ nli_calls = Cardinality(RowsAboveGate) + (IF pc = "raised" THEN 1 ELSE 0)
    /\ \A k \in 1..Len(results) :
          k \notin RowsAboveGate =>
              results[k].label = "NEUTRAL" /\ results[k].confidence = 100

\* A finished run with a pair at exactly the gate and a pair above it.
C16_Witness ==
    /\ pc = "done"
    /\ nli_calls >= 1
    /\ \E k \in 1..Len(results) : results[k].similarity = 60

\* The batches submitted so far, one after the other.
Submitted ==
    LET F[k \in 0..Len(calls)] == IF k = 0 THEN <<>> ELSE F[k - 1] \o calls[k]
    IN  F[Len(calls)]

\* C17: the batches submitted are contiguous slices of the input: one after the
\* other they are the input up to the batch start, and the whole input when the
\* function returns; each has at most batch_size scenarios and at least one, and
\* only the last one has fewer than batch_size.
C17_BatchesPartition ==
    /\ \A k \in 1..Len(calls) : Len(calls[k]) \in 1..batch_size
    /\ \A k \in 1..(Len(calls) - 1) : Len(calls[k]) = batch_size
    /\ Len(Submitted) <= N
    /\ \A k \in 1..Len(Submitted) : Submitted[k] = features[k - 1]
    /\ Len(calls) = batch_num
    /\ pc = "done" => Len(Submitted) = N

\* A finished run of two batches or more, the last one smaller than batch_size.
C17_Witness ==
    /\ pc = "done"
    /\ Len(calls) >= 2
    /\ Len(calls[Len(calls)]) < batch_size

\* A step of one of the two pair loops: a pair is compared.
PairStep == pc \in {"inner", "pairs"} /\ (j' = j + 1 \/ i' = i + 1 \/ pc' = "raised")

\* The step that calls the embedding model.
EmbedStep == encode_calls' # encode_calls

\* C18: in a run of either function the embedding model is called once, on all the
\* texts and before any pair is compared; no step of a pair loop calls it; a run that
\* returns has called it; the similarity matrix stays as it was built.
C18_EmbedOnce ==
    [][/\ encode_calls' <= 1
       /\ EmbedStep =>
             /\ encode_calls = 0
             /\ seen = {} /\ duplicates = <<>> /\ results = <<>> /\ nli_calls = 0
             /\ pc = "encode" => DOMAIN sim_matrix' = (0..(N - 1)) \X (0..(N - 1))
             /\ pc = "embed" =>
                   DOMAIN cosine_matrix' = (1..Len(bdd_steps)) \X (1..Len(bdd_steps))
       /\ PairStep => (encode_calls = 1 /\ ~EmbedStep)
       /\ ~EmbedStep => (sim_matrix' = sim_matrix /\ cosine_matrix' = cosine_matrix)
       /\ pc' = "done" => encode_calls' = 1]_vars

\* A finished run of analyze_bdd_steps_with_nli over three pairs, one call of the
\* embedding model behind it.
C18_Witness ==
    /\ pc = "done"
    /\ encode_calls = 1
    /\ Len(results) >= 3

\* The response carries a kept list: it parsed to an object whose "features" member
\* is a list (an absent member reads as the empty list).
HasKept(r) ==
    /\ r.call = "ok"
    /\ Parse(r).kind = "result"
    /\ Parse(r).val.t = "obj"
    /\ GetList(Parse(r).val.features).t = "list"

KeptList(r) == GetList(Parse(r).val.features).items

\* C19: a batch adds to the output either the whole batch or the kept list of the
\* service, never the one after the other.
C19_KeptOrBatch ==
    [][BatchStep =>
          \/ all_unique_features' = all_unique_features \o batch'
          \/ /\ HasKept(response')
             /\ all_unique_features' = all_unique_features \o KeptList(response')]_vars

\* C20: when remove_duplicates_cosine_90 finishes, no two kept indices a < b have a
\* similarity above the threshold without a contrast between their When+Then
\* texts, so a second pass over the kept records finds nothing to remove.
C20_NoDuplicateKept ==
    pc = "done" =>
        \A a, b \in Kept :
            a < b =>
                ~(/\ sim_matrix[a, b] > threshold
                  /\ ~has_contrast(WhenThen(features[a]), WhenThen(features[b])))

\* A finished run over three records that removed one and kept two.
C20_Witness ==
    /\ pc = "done"
    /\ N = 3
    /\ Cardinality(seen) = 1
    /\ Cardinality(Kept) = 2

\* Two records with the same given, when and then texts.
SameTexts(f, g) == \A key \in Keys : Get(f, key, <<>>) = Get(g, key, <<>>)

\* C21: when remove_duplicates_cosine_90 finishes, no two kept records have the
\* same given, when and then texts, whatever the texts hold.
C21_ExactDuplicatesReduced ==
    pc = "done" =>
        \A a, b \in Kept : a < b => ~SameTexts(features[a], features[b])

\* The When+Then text of a record contrasts with itself: it holds both terms of a
\* pair of the lexicon, as "invalid" holds "valid".
SelfContrast(f) == has_contrast(WhenThen(f), WhenThen(f))

\* C21, amended: two kept records have the same given, when and then texts only if
\* their When+Then text contrasts with itself, and two records with such a text
\* are never recorded as duplicates of each other.
C21_Amended ==
    /\ pc = "done" =>
          \A a, b \in Kept :
              (a < b /\ SameTexts(features[a], features[b])) => SelfContrast(features[a])
    /\ \A r \in Records :
          SameTexts(features[r.a], features[r.b]) => ~SelfContrast(features[r.a])

\* A finished run over two records with the same texts, which hold a term of the
\* lexicon without its counterpart: the first is kept and the second removed.
C21_Witness ==
    /\ pc = "done"
    /\ \E a \in Kept, b \in seen :
          /\ a < b
          /\ SameTexts(features[a], features[b])
          /\ ~NoTerm(WhenThen(features[a]))

\* The pairs of positions p < q of a list of n steps, in the order of the rows.
PositionPairs(n) ==
    LET F[p \in 0..n] ==
            IF p = 0 THEN <<>>
            ELSE F[p - 1] \o [q \in 1..(n - p) |-> <<p, p + q>>]
    IN  F[n]

\* C22: the rows written so far are, in order, the rows of the first pairs of
\* positions p < q, each with the two steps at p and q and with the entry [p][q] of
\* the similarity matrix as its similarity, by which it was gated and decided; a
\* finished run has one row for every pair of positions.
C22_RowPerPositionPair ==
    pc \in {"pairs", "done", "raised"} =>
        LET pp == PositionPairs(Len(bdd_steps))
        IN  /\ Len(results) <= Len(pp)
            /\ pc = "done" => Len(results) = Len(pp)
            /\ \A k \in 1..Len(results) :
                  LET sim == cosine_matrix[pp[k][1], pp[k][2]]
                  IN  /\ results[k].step1 = bdd_steps[pp[k][1]]
                      /\ results[k].step2 = bdd_steps[pp[k][2]]
                      /\ results[k].similarity = sim
                      /\ sim <= 60 => results[k].confidence = 100
                      /\ sim > 60 => results[k].confidence = 70
                      /\ results[k].decision = DecisionTable(sim, results[k].label)

\* A finished run over three steps, the first and the third with the same text.
C22_Witness ==
    /\ pc = "done"
    /\ Len(bdd_steps) = 3
    /\ bdd_steps[1] = bdd_steps[3]
    /\ bdd_steps[1] # bdd_steps[2]
    /\ Len(results) = 3

============================================================================
